---- MODULE Spec2Model ----
(***************************************************************************)
(* The login pipeline of the CoopHub backend: POST /api/login runs         *)
(* globalRateLimiter, rateLimitMiddleware and the login controller, which  *)
(* awaits the authentication service.  Texts (identifiers, passwords) are  *)
(* sequences of one-character strings; JavaScript values are records       *)
(* [type, text]; time is Date.now() in milliseconds.                       *)
(***************************************************************************)
EXTENDS Integers, Sequences, FiniteSets, TLC

VARIABLES
    now,            \* Date.now(), milliseconds
    env,            \* process.env: [JWT_SECRET: BOOLEAN, NODE_ENV: STRING]
    ipRequests,     \* Map clientIP -> [count, resetTime, warned]
    loginAttempts,  \* Map identifier -> [attempts, resetTime]
    pending,        \* requests suspended at `await comparePasswords(...)`
    warnCount,      \* history: warnings logged per client IP since its window opened
    failedAt,       \* history: per identifier, the times of the failures recorded for
                    \* it during the last FAILED_WINDOW_MS milliseconds and since its
                    \* last successful login
    call            \* a call of a utility function outside the login pipeline:
                    \* [fn, input, at, result]

vars == <<now, env, ipRequests, loginAttempts, pending, warnCount, failedAt, call>>

-----------------------------------------------------------------------------
(* Bounds of the exploration *)

MaxIpCount == 6
MaxFloodCount == 22
MaxPending == 1
MaxLen == 3
MaxRacing == 2

-----------------------------------------------------------------------------
(* RATE_LIMIT_CONFIG *)

MAX_FAILED_ATTEMPTS == 5
FAILED_WINDOW_MS == 5 * 60 * 1000
MAX_REQUESTS_PER_IP == 20
IP_WINDOW_MS == 60 * 1000

\* process.env.JWT_EXPIRATION || '24h', in seconds
JWT_EXPIRATION_S == 24 * 60 * 60

-----------------------------------------------------------------------------
(* JavaScript values and texts *)

JsString(t) == [type |-> "string", text |-> t]
Undefined == [type |-> "undefined", text |-> <<>>]
JsNumber(t) == [type |-> "number", text |-> t]

\* JavaScript truthiness: undefined and "" are falsy; a number is falsy when 0
Truthy(v) ==
    CASE v.type = "string" -> v.text # <<>>
      [] v.type = "number" -> v.text # <<"0">>
      [] OTHER -> FALSE

WhitespaceChars == {" ", "\t", "\n"}

LowerChars == {"a","b","c","d","e","f","g","h","i","j","k","l","m",
               "n","o","p","q","r","s","t","u","v","w","x","y","z"}
UpperChars == {"A","B","C","D","E","F","G","H","I","J","K","L","M",
               "N","O","P","Q","R","S","T","U","V","W","X","Y","Z"}
DigitChars == {"0","1","2","3","4","5","6","7","8","9"}

\* the character class [a-zA-Z0-9._@-]
IdentifierChars == LowerChars \cup UpperChars \cup DigitChars \cup {".", "_", "@", "-"}

RECURSIVE TrimStart(_)
TrimStart(s) ==
    IF s # <<>> /\ Head(s) \in WhitespaceChars THEN TrimStart(Tail(s)) ELSE s

RECURSIVE TrimEnd(_)
TrimEnd(s) ==
    IF s # <<>> /\ s[Len(s)] \in WhitespaceChars
    THEN TrimEnd(SubSeq(s, 1, Len(s) - 1))
    ELSE s

\* String.prototype.trim
Trim(s) == TrimEnd(TrimStart(s))

-----------------------------------------------------------------------------
(* Results of functions that return or throw *)

Ok(v) == [ok |-> TRUE, value |-> v, error |-> "", message |-> <<>>]
Throw(cls, msg) == [ok |-> FALSE, value |-> <<>>, error |-> cls, message |-> msg]

\* an exception object: its class, its message, its statusCode (0: it has none)
Exception(cls, msg) == [error |-> cls, message |-> msg, statusCode |-> 0]

\* validateInput(input, fieldName)
validateInput(input, fieldName) ==
    IF ~Truthy(input) \/ input.type # "string"
    THEN Throw("Error", <<fieldName, "is required and must be a string">>)
    ELSE IF Len(Trim(input.text)) = 0
    THEN Throw("Error", <<fieldName, "cannot be empty">>)
    ELSE Ok(Trim(input.text))

\* the pattern without its length bounds
identifierPattern_anyLength(s) == \A i \in 1..Len(s) : s[i] \in IdentifierChars

\* /^[a-zA-Z0-9._@-]{3,50}$/.test(s)
identifierPattern(s) ==
    /\ Len(s) >= 3
    /\ Len(s) <= 50
    /\ \A i \in 1..Len(s) : s[i] \in IdentifierChars

\* validateIdentifier with a message of its own for a length out of bounds
validateIdentifier_lengthTold(identifier) ==
    LET validated == validateInput(identifier, "identifier") IN
    IF ~validated.ok THEN validated
    ELSE IF Len(validated.value) < 3 \/ Len(validated.value) > 50
    THEN Throw("Error", <<"Identifier must be between 3 and 50 characters">>)
    ELSE IF ~identifierPattern(validated.value)
    THEN Throw("Error", <<"Invalid identifier format">>)
    ELSE Ok(validated.value)

\* validateIdentifier(identifier)
validateIdentifier(identifier) ==
    LET validated == validateInput(identifier, "identifier") IN
    IF ~validated.ok THEN validated
    ELSE IF ~identifierPattern(validated.value)
    THEN Throw("Error", <<"Invalid identifier format">>)
    ELSE Ok(validated.value)

\* validatePassword with the length of the password as it was sent
validatePassword_untrimmed(password) ==
    LET validated == validateInput(password, "password") IN
    IF ~validated.ok THEN validated
    ELSE IF Len(password.text) < 4 \/ Len(password.text) > 128
    THEN Throw("Error", <<"Password must be between 4 and 128 characters">>)
    ELSE Ok(validated.value)

\* validatePassword without its length check
validatePassword_anyLength(password) == validateInput(password, "password")

\* validatePassword(password)
validatePassword(password) ==
    LET validated == validateInput(password, "password") IN
    IF ~validated.ok THEN validated
    ELSE IF Len(validated.value) < 4 \/ Len(validated.value) > 128
    THEN Throw("Error", <<"Password must be between 4 and 128 characters">>)
    ELSE Ok(validated.value)

-----------------------------------------------------------------------------
(* The user store and the password verifier *)

t_john_doe == <<"j","o","h","n","_","d","o","e">>
t_john_email == <<"j","o","h","n","@","e","x","a","m","p","l","e",".","c","o","m">>
t_admin == <<"a","d","m","i","n">>
t_admin_email == <<"a","d","m","i","n","@","e","x","a","m","p","l","e",".","c","o","m">>
t_john123 == <<"j","o","h","n","1","2","3">>
t_abcde123 == <<"a","b","c","d","e","1","2","3">>

\* bcrypt: a salted one-way hash; compare(p, h) holds exactly for the p that h was made of
bcryptHash(plain) == [alg |-> "$2b$10$", of |-> plain]

usersData == <<
    [id |-> 1, username |-> t_john_doe, email |-> t_john_email,
     password |-> bcryptHash(t_john123)],
    [id |-> 2, username |-> t_admin, email |-> t_admin_email,
     password |-> bcryptHash(t_abcde123)] >>

NoUser == 0

\* usersData.find(u => u.username === identifier || u.email === identifier):
\* the index of the first match, NoUser when there is none
findByUsernameOrEmail(identifier) ==
    LET matches == {i \in 1..Len(usersData) :
                      usersData[i].username = identifier \/ usersData[i].email = identifier}
    IN IF matches = {} THEN NoUser
       ELSE CHOOSE i \in matches : \A j \in matches : i <= j

\* comparePasswords(plainPassword, hashedPassword)
comparePasswords(plainPassword, hashedPassword) ==
    hashedPassword = bcryptHash(plainPassword)

\* generateToken(payload) at time t
generateToken(payload, t) ==
    IF ~env.JWT_SECRET
    THEN Throw("Error", <<"JWT_SECRET not configured">>)
    ELSE Ok([payload |-> payload, iat |-> t \div 1000,
             exp |-> (t \div 1000) + JWT_EXPIRATION_S])

-----------------------------------------------------------------------------
(* Maps *)

EmptyMap == [k \in {} |-> 0]
MapSet(m, k, v) == [x \in DOMAIN m \cup {k} |-> IF x = k THEN v ELSE m[x]]
MapDelete(m, k) == [x \in DOMAIN m \ {k} |-> m[x]]

Log(level, line) == [level |-> level, line |-> line]

-----------------------------------------------------------------------------
(* rateLimitMiddleware.js *)

\* s.split(',')[0]: the text before the first comma, all of s when it has none
SplitFirst(s) ==
    LET commas == {i \in 1..Len(s) : s[i] = ","} IN
    IF commas = {} THEN s
    ELSE SubSeq(s, 1, (CHOOSE i \in commas : \A j \in commas : i <= j) - 1)

\* getClientIP that takes the first forwarded-for entry as it is written
getClientIP_untrimmed(client) ==
    LET first == IF client.xff.type = "string" THEN SplitFirst(client.xff.text)
                 ELSE <<>>
    IN IF first # <<>> THEN first
       ELSE IF Truthy(client.remoteAddress) THEN client.remoteAddress.text
       ELSE <<"u","n","k","n","o","w","n">>

\* getClientIP(req) for a request with the header value xff and the socket address
\* remoteAddress (JavaScript values):
\* headers['x-forwarded-for']?.split(',')[0]?.trim() || socket?.remoteAddress || 'unknown'
getClientIP(client) ==
    LET first == IF client.xff.type = "string" THEN Trim(SplitFirst(client.xff.text))
                 ELSE <<>>
    IN IF first # <<>> THEN first
       ELSE IF Truthy(client.remoteAddress) THEN client.remoteAddress.text
       ELSE <<"u","n","k","n","o","w","n">>

\* now > ipData.resetTime
IpWindowPassed(ipData, t) == t > ipData.resetTime

\* the limit reached by the MAX_REQUESTS_PER_IP-th request already
IpLimitExceeded_early(ipData) == ipData.count >= MAX_REQUESTS_PER_IP

\* ipData.count > RATE_LIMIT_CONFIG.MAX_REQUESTS_PER_IP
IpLimitExceeded(ipData) == ipData.count > MAX_REQUESTS_PER_IP

\* the remaining time rounded down to whole seconds
RetryAfter_floor(resetTime, t) ==
    LET d == resetTime - t IN
    IF d >= 0 THEN d \div 1000 ELSE -(((-d) + 999) \div 1000)

\* Math.ceil((resetTime - now) / 1000)
RetryAfter(resetTime, t) ==
    LET d == resetTime - t IN
    IF d >= 0 THEN (d + 999) \div 1000 ELSE -((-d) \div 1000)

\* the warned flag left as it was
Warned_forgotten(ipData) == ipData

\* ipData.warned = true
Warned(ipData) == [ipData EXCEPT !.warned = TRUE]

\* a counter whose window is pushed back by every request
IpCounted_sliding(ipMap, clientIP, t) ==
    LET ipData == IF clientIP \in DOMAIN ipMap THEN ipMap[clientIP]
                  ELSE [count |-> 0, resetTime |-> t + IP_WINDOW_MS, warned |-> FALSE]
        fresh == IF IpWindowPassed(ipData, t)
                 THEN [count |-> 0, resetTime |-> t + IP_WINDOW_MS, warned |-> FALSE]
                 ELSE ipData
    IN [fresh EXCEPT !.count = @ + 1, !.resetTime = t + IP_WINDOW_MS]

\* the counter of clientIP after lines 45-59: fetched or created, reset when its
\* window has passed, then incremented
IpCounted(ipMap, clientIP, t) ==
    LET ipData == IF clientIP \in DOMAIN ipMap THEN ipMap[clientIP]
                  ELSE [count |-> 0, resetTime |-> t + IP_WINDOW_MS, warned |-> FALSE]
        fresh == IF IpWindowPassed(ipData, t)
                 THEN [count |-> 0, resetTime |-> t + IP_WINDOW_MS, warned |-> FALSE]
                 ELSE ipData
    IN [fresh EXCEPT !.count = @ + 1]

\* globalRateLimiter(req, res, next): the new map, whether the request is blocked,
\* the response when it is, and the log lines written
globalRateLimiter(ipMap, clientIP, t) ==
    LET ipData == IpCounted(ipMap, clientIP, t)
        blocked == IpLimitExceeded(ipData)
        warns == blocked /\ ~ipData.warned
    IN [ipRequests |-> MapSet(ipMap, clientIP,
                              IF warns THEN Warned(ipData) ELSE ipData),
        blocked |-> blocked,
        response |-> [status |-> 429,
                      body |-> [success |-> FALSE,
                                error |-> <<"Too many requests. Please slow down.">>,
                                retryAfter |-> RetryAfter(ipData.resetTime, t)]],
        logs |-> IF warns THEN <<Log("warn", "Rate limit exceeded for IP")>>
                 ELSE IF blocked THEN <<>>
                 ELSE <<Log("info", "POST /api/login")>>]

\* new Date(ms).toISOString(): the date as the day since the epoch, the time of
\* day and the milliseconds
toISOString(ms) ==
    [day |-> ms \div 86400000, hour |-> (ms \div 3600000) % 24,
     minute |-> (ms \div 60000) % 60, second |-> (ms \div 1000) % 60,
     millisecond |-> ms % 1000]

\* the instant an ISO timestamp denotes, in milliseconds since the epoch
DateParse(iso) ==
    (((iso.day * 24 + iso.hour) * 60 + iso.minute) * 60 + iso.second) * 1000
        + iso.millisecond

\* the window test with its comparison turned around
FailedWindowPassed_reversed(attempts, t) == t < attempts.resetTime

\* now > attempts.resetTime
FailedWindowPassed(attempts, t) == t > attempts.resetTime

\* a gate that never locks out
FailedLimitReached_never(attempts) == FALSE

\* the lockout starting one failure late
FailedLimitReached_late(attempts) == attempts.attempts > MAX_FAILED_ATTEMPTS

\* attempts.attempts >= RATE_LIMIT_CONFIG.MAX_FAILED_ATTEMPTS
FailedLimitReached(attempts) == attempts.attempts >= MAX_FAILED_ATTEMPTS

\* the counter object of lines 94-103 and 129-138: the stored object, reset in place
\* when its window has passed, or a new object that is not stored
AttemptsOf(attemptMap, identifier, t) ==
    LET attempts == IF identifier \in DOMAIN attemptMap THEN attemptMap[identifier]
                    ELSE [attempts |-> 0, resetTime |-> t + FAILED_WINDOW_MS]
    IN IF FailedWindowPassed(attempts, t)
       THEN [attempts |-> 0, resetTime |-> t + FAILED_WINDOW_MS]
       ELSE attempts

\* a gate whose blocked check restarts the window of the counter
rateLimitMiddleware_extending(attemptMap, identifier, t) ==
    IF ~Truthy(identifier)
    THEN [loginAttempts |-> attemptMap, blocked |-> FALSE, checked |-> FALSE,
          response |-> [status |-> 429, body |-> [success |-> FALSE]]]
    ELSE
    LET attempts == AttemptsOf(attemptMap, identifier, t)
        blocked == FailedLimitReached(attempts)
        stored == IF blocked THEN [attempts EXCEPT !.resetTime = t + FAILED_WINDOW_MS]
                  ELSE attempts
    IN
    [loginAttempts |-> IF identifier \in DOMAIN attemptMap
                       THEN MapSet(attemptMap, identifier, stored)
                       ELSE attemptMap,
     blocked |-> blocked,
     checked |-> TRUE,
     response |-> [status |-> 429,
                   body |-> [success |-> FALSE,
                             error |-> <<"Too many failed login attempts. Please try again later.">>,
                             retryAfter |-> RetryAfter(stored.resetTime, t),
                             resetTime |-> toISOString(stored.resetTime)]]]

\* a gate that stores the counter object it creates for an identifier without one
rateLimitMiddleware_storing(attemptMap, identifier, t) ==
    IF ~Truthy(identifier)
    THEN [loginAttempts |-> attemptMap, blocked |-> FALSE, checked |-> FALSE,
          response |-> [status |-> 429, body |-> [success |-> FALSE]]]
    ELSE
    LET attempts == AttemptsOf(attemptMap, identifier, t) IN
    [loginAttempts |-> MapSet(attemptMap, identifier, attempts),
     blocked |-> FailedLimitReached(attempts),
     checked |-> TRUE,
     response |-> [status |-> 429,
                   body |-> [success |-> FALSE,
                             error |-> <<"Too many failed login attempts. Please try again later.">>,
                             retryAfter |-> RetryAfter(attempts.resetTime, t),
                             resetTime |-> toISOString(attempts.resetTime)]]]

\* rateLimitMiddleware(req, res, next): the map after the call (a stored object whose
\* window has passed is reset through the reference Map.get returned), whether the
\* request is blocked and the response when it is
rateLimitMiddleware(attemptMap, identifier, t) ==
    IF ~Truthy(identifier)
    THEN [loginAttempts |-> attemptMap, blocked |-> FALSE, checked |-> FALSE,
          response |-> [status |-> 429, body |-> [success |-> FALSE]]]
    ELSE
    LET attempts == AttemptsOf(attemptMap, identifier, t) IN
    [loginAttempts |-> IF identifier \in DOMAIN attemptMap
                       THEN MapSet(attemptMap, identifier, attempts)
                       ELSE attemptMap,
     blocked |-> FailedLimitReached(attempts),
     checked |-> TRUE,
     response |-> [status |-> 429,
                   body |-> [success |-> FALSE,
                             error |-> <<"Too many failed login attempts. Please try again later.">>,
                             retryAfter |-> RetryAfter(attempts.resetTime, t),
                             resetTime |-> toISOString(attempts.resetTime)]]]

\* recordFailedAttempt that evicts an entry whose window has passed
recordFailedAttempt_evicting(attemptMap, identifier, t) ==
    IF ~Truthy(identifier) THEN attemptMap
    ELSE IF identifier \in DOMAIN attemptMap
    THEN IF FailedWindowPassed(attemptMap[identifier], t)
         THEN MapDelete(attemptMap, identifier)
         ELSE MapSet(attemptMap, identifier,
                     [attemptMap[identifier] EXCEPT !.attempts = @ + 1])
    ELSE MapSet(attemptMap, identifier,
                [attempts |-> 1, resetTime |-> t + FAILED_WINDOW_MS])

\* recordFailedAttempt(identifier): the map after the call
recordFailedAttempt(attemptMap, identifier, t) ==
    IF ~Truthy(identifier) THEN attemptMap
    ELSE LET attempts == AttemptsOf(attemptMap, identifier, t) IN
         MapSet(attemptMap, identifier, [attempts EXCEPT !.attempts = @ + 1])

\* clearLoginAttempts that deletes nothing
clearLoginAttempts_kept(attemptMap, identifier) == attemptMap

\* clearLoginAttempts(identifier): the map after the call
clearLoginAttempts(attemptMap, identifier) ==
    IF Truthy(identifier) THEN MapDelete(attemptMap, identifier) ELSE attemptMap

-----------------------------------------------------------------------------
(* errorHandler, the authentication service and the login controller *)

\* errorHandler(err, req, res, next): the response sent
errorHandler(err) ==
    LET development == env.NODE_ENV = "development"
        status == CASE err.error = "BadRequestError" -> 400
                    [] err.error = "UnauthorizedError" -> 401
                    [] err.error = "SyntaxError" -> 400
                    [] err.error = "JsonWebTokenError" -> 401
                    [] err.error = "TokenExpiredError" -> 401
                    [] OTHER -> IF err.statusCode # 0 THEN err.statusCode ELSE 500
        message == CASE err.error = "BadRequestError" -> err.message
                     [] err.error = "UnauthorizedError" -> err.message
                     [] err.error = "SyntaxError" -> <<"Invalid JSON in request body">>
                     [] err.error = "JsonWebTokenError" -> <<"Invalid token">>
                     [] err.error = "TokenExpiredError" -> <<"Token has expired">>
                     [] OTHER -> IF development THEN err.message
                                 ELSE <<"Internal server error">>
    IN [status |-> status, body |-> [success |-> FALSE, error |-> message]]

NoResponse == [status |-> 0, body |-> [success |-> FALSE]]

\* an unknown identifier reported as such
UnknownUserError_told == Exception("UnauthorizedError", <<"User not found">>)

\* throw new UnauthorizedError("Invalid credentials") when no user is found
UnknownUserError == Exception("UnauthorizedError", <<"Invalid credentials">>)

\* throw new UnauthorizedError("Invalid credentials") when the password does not match
WrongPasswordError == Exception("UnauthorizedError", <<"Invalid credentials">>)

\* throw new UnauthorizedError("Authentication failed") for an unexpected error
UnexpectedError == Exception("UnauthorizedError", <<"Authentication failed">>)

\* the stored user record returned as it is
SanitizedUser_whole(user) == user

\* the user data the service returns: { id, username, email }
SanitizedUser(user) == [id |-> user.id, username |-> user.username, email |-> user.email]

\* the request logging middleware of app.js: silent for a path that includes '/login'
requestLogging(path) ==
    IF \E i \in 1..Len(path) : path[i] = "login" THEN <<>>
    ELSE <<Log("info", "METHOD originalUrl")>>

\* POST /api/login
LoginPath == <<"api", "login">>

\* login(identifier, password) of the service up to `await comparePasswords`:
\* validation, lookup, and the failure recorded for an unknown identifier
loginStart(attemptMap, identifier, password, t) ==
    LET vId == validateIdentifier(identifier)
        vPw == validatePassword(password)
        user == findByUsernameOrEmail(vId.value)
        none == [loginAttempts |-> attemptMap, suspended |-> FALSE,
                 validatedIdentifier |-> <<>>, validatedPassword |-> <<>>,
                 user |-> NoUser, stages |-> {"validate"}, recorded |-> <<>>,
                 error |-> Exception("", <<>>)]
    IN IF ~vId.ok
       THEN [none EXCEPT !.error = Exception("BadRequestError", vId.message)]
       ELSE IF ~vPw.ok
       THEN [none EXCEPT !.error = Exception("BadRequestError", vPw.message)]
       ELSE IF user = NoUser
       THEN [none EXCEPT
               !.loginAttempts = recordFailedAttempt(attemptMap, JsString(vId.value), t),
               !.stages = {"validate", "lookup", "record"},
               !.recorded = <<JsString(vId.value)>>,
               !.error = UnknownUserError]
       ELSE [none EXCEPT
               !.suspended = TRUE,
               !.validatedIdentifier = vId.value,
               !.validatedPassword = vPw.value,
               !.user = user,
               !.stages = {"validate", "lookup", "compare"}]

\* the service after `await comparePasswords` resolves, and the controller's response
loginFinish(attemptMap, p, t) ==
    LET user == usersData[p.user]
        passwordMatch == comparePasswords(p.validatedPassword, user.password)
        token == generateToken([id |-> user.id, username |-> user.username,
                                email |-> user.email], t)
        failed == <<Log("error", "Login failed"), Log("error", "errorHandler")>>
        cleared == clearLoginAttempts(attemptMap, JsString(p.validatedIdentifier))
    IN IF ~passwordMatch
       THEN [loginAttempts |->
                 recordFailedAttempt(attemptMap, JsString(p.validatedIdentifier), t),
             stages |-> {"record"},
             recorded |-> <<JsString(p.validatedIdentifier)>>,
             cleared |-> <<>>,
             response |-> errorHandler(WrongPasswordError),
             logs |-> failed]
       ELSE IF ~token.ok
       THEN [loginAttempts |-> cleared,
             stages |-> {"clear"},
             recorded |-> <<>>,
             cleared |-> <<JsString(p.validatedIdentifier)>>,
             response |-> errorHandler(UnexpectedError),
             logs |-> <<Log("error", "Unexpected login error")>> \o failed]
       ELSE [loginAttempts |-> cleared,
             stages |-> {"clear", "token"},
             recorded |-> <<>>,
             cleared |-> <<JsString(p.validatedIdentifier)>>,
             response |-> [status |-> 200,
                           body |-> [success |-> TRUE,
                                     message |-> <<"Login successful">>,
                                     user |-> SanitizedUser(user),
                                     token |-> token.value]],
             logs |-> <<Log("info", "User logged in")>>]

(* One request, from its arrival to its response *)

\* router.post("/login", globalRateLimiter, rateLimitMiddleware, login) for a request
\* arriving at time t, run until the response is sent or the service suspends at
\* `await comparePasswords`: the maps after it, the stages it ran, the gate that
\* blocked it, the response (NoResponse while suspended) and the lines logged
Arrival(ipMap, attemptMap, client, identifier, password, t) ==
    LET clientIP == getClientIP(client)
        ipGate == globalRateLimiter(ipMap, clientIP, t)
        idGate == rateLimitMiddleware(attemptMap, identifier, t)
        svc == loginStart(idGate.loginAttempts, identifier, password, t)
        received == <<Log("info", "Login request received")>>
        failed == <<Log("error", "Login failed"), Log("error", "errorHandler")>>
        logged == requestLogging(LoginPath) \o ipGate.logs
        out == [ipRequests |-> ipGate.ipRequests, loginAttempts |-> attemptMap,
                suspended |-> FALSE, request |-> <<>>, recorded |-> <<>>,
                stages |-> {"ipGate"}, gate |-> "ip",
                response |-> ipGate.response, logs |-> logged]
    IN IF ipGate.blocked THEN out
       ELSE IF idGate.blocked
       THEN [out EXCEPT !.loginAttempts = idGate.loginAttempts,
                        !.stages = {"ipGate", "idGate"},
                        !.gate = "identifier",
                        !.response = idGate.response]
       ELSE IF ~svc.suspended
       THEN [out EXCEPT !.loginAttempts = svc.loginAttempts,
                        !.recorded = svc.recorded,
                        !.stages = {"ipGate", "idGate"} \cup svc.stages,
                        !.gate = "",
                        !.response = errorHandler(svc.error),
                        !.logs = logged \o received \o failed]
       ELSE [out EXCEPT !.loginAttempts = svc.loginAttempts,
                        !.suspended = TRUE,
                        !.request = <<[validatedIdentifier |-> svc.validatedIdentifier,
                                       validatedPassword |-> svc.validatedPassword,
                                       user |-> svc.user]>>,
                        !.stages = {"ipGate", "idGate"} \cup svc.stages,
                        !.gate = "",
                        !.response = NoResponse,
                        !.logs = logged \o received]

-----------------------------------------------------------------------------
(* Requests explored *)

t_nobody == <<"n","o","b","o","d","y">>
t_wrongpw == <<"w","r","o","n","g","p","w">>

t_ip1 == <<"1","0",".","0",".","0",".","1">>
t_ip2 == <<"1","0",".","0",".","0",".","2">>
t_ip9 == <<"1","0",".","0",".","0",".","9">>

Clients == { [xff |-> Undefined, remoteAddress |-> JsString(t_ip1)] }

Identifiers ==
    { JsString(t_john_doe), JsString(<<" ">> \o t_john_doe),
      JsString(t_nobody), JsString(<<"a","b">>), Undefined }

Passwords ==
    { JsString(t_john123), JsString(t_wrongpw), JsString(<<"a","b","c">>), Undefined }

\* the instants at which something happens: the start of a failed-attempt window,
\* its last instant (now = resetTime) and the first one after it
Instants == { 0, FAILED_WINDOW_MS, FAILED_WINDOW_MS + 1 }

NodeEnvs == { "production", "development" }

SpanIdentifiers == { JsString(t_john_doe) }
SpanPasswords == { JsString(t_john123), JsString(t_wrongpw) }

Flooder == [xff |-> Undefined, remoteAddress |-> JsString(t_ip1)]
FloodClients ==
    { Flooder,
      [xff |-> JsString(t_ip2 \o <<",", " ">> \o t_ip9),
       remoteAddress |-> JsString(t_ip1)] }
FloodIdentifiers == { JsString(t_john_doe), JsString(<<"a","b">>) }
FloodPasswords == { JsString(t_wrongpw) }

\* the start of a client's window, its last instant and the first one after it
FloodInstants == { 0, IP_WINDOW_MS, IP_WINDOW_MS + 1 }

\* no utility call has been made
NoCall == [fn |-> "none", input |-> Undefined, at |-> 0, result |-> Ok(<<>>)]

-----------------------------------------------------------------------------
(* The state machine *)

Init ==
    /\ now = 0
    /\ env \in [JWT_SECRET : BOOLEAN, NODE_ENV : NodeEnvs]
    /\ ipRequests = EmptyMap
    /\ loginAttempts = EmptyMap
    /\ pending = <<>>
    /\ warnCount = EmptyMap
    /\ failedAt = EmptyMap
    /\ call = NoCall

\* the warnings logged for clientIP in its current window, after a call of
\* globalRateLimiter that wrote `logs`
WarnCounted(clientIP, logs) ==
    LET opened == IF clientIP \notin DOMAIN ipRequests THEN TRUE
                  ELSE IpWindowPassed(ipRequests[clientIP], now)
        before == IF opened THEN 0 ELSE warnCount[clientIP]
        warned == Cardinality({i \in 1..Len(logs) : logs[i].level = "warn"})
    IN MapSet(warnCount, clientIP, before + warned)

\* the times in `times` that lie within the FAILED_WINDOW_MS milliseconds ending at t
Recent(times, t) == SelectSeq(times, LAMBDA x : x >= t - FAILED_WINDOW_MS)

\* the history after the failures `recorded` and the successes `cleared` (sequences
\* of identifiers) at time t
FailuresNoted(recorded, cleared, t) ==
    IF cleared # <<>> THEN MapDelete(failedAt, cleared[1])
    ELSE IF recorded = <<>> THEN failedAt
    ELSE LET identifier == recorded[1]
             before == IF identifier \in DOMAIN failedAt THEN failedAt[identifier]
                       ELSE <<>>
         IN MapSet(failedAt, identifier, Append(Recent(before, t), t))

\* a POST /api/login arrives
Receive(client, identifier, password) ==
    \E out \in {Arrival(ipRequests, loginAttempts, client, identifier, password, now)} :
       /\ ipRequests' = out.ipRequests
       /\ loginAttempts' = out.loginAttempts
       /\ pending' = pending \o out.request
       /\ warnCount' = WarnCounted(getClientIP(client), out.logs)
       /\ UNCHANGED <<now, env, call>>

\* comparePasswords resolves for the i-th suspended request: the service resumes
\* and the controller or the error handler sends the response
Complete(i) ==
    \E fin \in {loginFinish(loginAttempts, pending[i], now)} :
       /\ loginAttempts' = fin.loginAttempts
       /\ pending' = SubSeq(pending, 1, i - 1) \o SubSeq(pending, i + 1, Len(pending))
       /\ UNCHANGED <<now, env, ipRequests, warnCount, call>>

\* the wall clock advances to instant t
Tick(t) ==
    /\ t > now
    /\ now' = t
    /\ UNCHANGED <<env, ipRequests, loginAttempts, pending, warnCount, call>>

\* the requests one client has in its current window stay below cap
Below(client, cap) ==
    LET clientIP == getClientIP(client) IN
    IF clientIP \notin DOMAIN ipRequests THEN TRUE
    ELSE IF IpWindowPassed(ipRequests[clientIP], now) THEN TRUE
    ELSE ipRequests[clientIP].count < cap

\* the login pipeline under a few requests per client: the history of failure
\* times is not kept
Next ==
    \/ \E client \in Clients, identifier \in Identifiers, password \in Passwords :
          /\ Below(client, MaxIpCount)
          /\ Receive(client, identifier, password)
          /\ Len(pending') <= MaxPending
          /\ UNCHANGED failedAt
    \/ \E i \in 1..Len(pending) : Complete(i) /\ UNCHANGED failedAt
    \/ \E t \in Instants : Tick(t) /\ UNCHANGED failedAt

Spec == Init /\ [][Next]_vars

\* failed logins for one account, one after the other, with the history of the
\* times at which failures were recorded
NextSpan ==
    \/ \E client \in Clients, identifier \in SpanIdentifiers, password \in SpanPasswords :
          /\ Below(client, MaxIpCount)
          /\ Receive(client, identifier, password)
          /\ Len(pending') <= MaxPending
          /\ failedAt' = FailuresNoted(
                 Arrival(ipRequests, loginAttempts, client, identifier,
                         password, now).recorded, <<>>, now)
    \/ \E i \in 1..Len(pending) :
          /\ Complete(i)
          /\ \E fin \in {loginFinish(loginAttempts, pending[i], now)} :
                 failedAt' = FailuresNoted(fin.recorded, fin.cleared, now)
    \/ \E t \in Instants :
          /\ Tick(t)
          /\ failedAt' = [k \in DOMAIN failedAt |-> Recent(failedAt[k], t)]

SpecSpan == Init /\ [][NextSpan]_vars

\* one client flooding the endpoint, another one sending a few requests
NextFlood ==
    \/ \E client \in FloodClients, identifier \in FloodIdentifiers,
          password \in FloodPasswords :
          /\ Below(client, IF client = Flooder THEN MaxFloodCount ELSE MaxIpCount)
          /\ Receive(client, identifier, password)
          /\ Len(pending') <= MaxPending
          /\ UNCHANGED failedAt
    \/ \E i \in 1..Len(pending) : Complete(i) /\ UNCHANGED failedAt
    \/ \E t \in FloodInstants : Tick(t) /\ UNCHANGED failedAt

\* a deployment with its secret configured, which the gates do not read
InitFlood == Init /\ env = [JWT_SECRET |-> TRUE, NODE_ENV |-> "production"]

SpecFlood == InitFlood /\ [][NextFlood]_vars

\* concurrent logins for one account with a wrong password: up to MaxRacing
\* requests are suspended at `await comparePasswords` at the same time
RaceIdentifiers == { JsString(t_john_doe) }
RacePasswords == { JsString(t_wrongpw) }

NextRace ==
    \/ \E client \in Clients, identifier \in RaceIdentifiers, password \in RacePasswords :
          /\ Below(client, MaxIpCount)
          /\ Receive(client, identifier, password)
          /\ Len(pending') <= MaxRacing
          /\ UNCHANGED failedAt
    \/ \E i \in 1..Len(pending) : Complete(i) /\ UNCHANGED failedAt
    \/ \E t \in Instants : Tick(t) /\ UNCHANGED failedAt

SpecRace == InitFlood /\ [][NextRace]_vars

-----------------------------------------------------------------------------
(* The validators called on their own *)

\* a text of n characters c
Rep(c, n) == [i \in 1..n |-> c]

\* characters of the identifier class, a blank and a character outside the class
Alphabet == {"a", "_", " ", "!"}

\* every text of at most MaxLen characters, texts around the length limits of the
\* validators, and texts with blanks around them
ShortTexts == UNION {[1..k -> Alphabet] : k \in 0..MaxLen}
LimitLengths == {4, 5, 49, 50, 51, 127, 128, 129}
LimitTexts == {Rep("a", n) : n \in LimitLengths}
PaddedTexts ==
    {<<" ">> \o t \o <<" ">> : t \in LimitTexts \cup {Rep("a", 2), Rep("a", 3)}}
    \cup {Rep(" ", n) : n \in {4, 5}}

ValidatorInputs ==
    {JsString(t) : t \in ShortTexts \cup LimitTexts \cup PaddedTexts}
    \cup {Undefined, JsNumber(<<"1","2","3","4">>)}

\* the outcome of a utility function fn called with input at time t
Called(fn, input, t, result) == [fn |-> fn, input |-> input, at |-> t, result |-> result]

\* validateIdentifier(input) is called
CallValidateIdentifier(input) ==
    /\ call' = Called("validateIdentifier", input, now, validateIdentifier(input))
    /\ UNCHANGED <<now, env, ipRequests, loginAttempts, pending, warnCount, failedAt>>

\* validatePassword(input) is called
CallValidatePassword(input) ==
    /\ call' = Called("validatePassword", input, now, validatePassword(input))
    /\ UNCHANGED <<now, env, ipRequests, loginAttempts, pending, warnCount, failedAt>>

NextValidate ==
    \/ \E input \in ValidatorInputs : CallValidateIdentifier(input)
    \/ \E input \in ValidatorInputs : CallValidatePassword(input)

SpecValidate == InitFlood /\ [][NextValidate]_vars

-----------------------------------------------------------------------------
(* Tokens on a protected route *)

\* verifyToken that does not look at the expiry of the token
verifyToken_noExpiry(token, t) ==
    IF ~env.JWT_SECRET
    THEN Throw("Error", <<"JWT_SECRET not configured">>)
    ELSE Ok([id |-> token.payload.id, username |-> token.payload.username,
             email |-> token.payload.email, iat |-> token.iat, exp |-> token.exp])

\* verifyToken(token) at time t: jwt.verify rejects a token whose exp, in seconds,
\* is not after the clock, and returns the payload with iat and exp otherwise
verifyToken(token, t) ==
    IF ~env.JWT_SECRET
    THEN Throw("Error", <<"JWT_SECRET not configured">>)
    ELSE IF t \div 1000 >= token.exp
    THEN Throw("TokenExpiredError", <<"jwt expired">>)
    ELSE Ok([id |-> token.payload.id, username |-> token.payload.username,
             email |-> token.payload.email, iat |-> token.iat, exp |-> token.exp])

\* authMiddleware(req, res, next) for an Authorization header [scheme, token]
\* (scheme "" when the header is missing): whether next() was called without an
\* error, req.user, and the response of the error handler otherwise
authMiddleware(header, t) ==
    IF header.scheme # "Bearer"
    THEN [ok |-> FALSE, value |-> <<>>,
          response |-> errorHandler(Exception("UnauthorizedError",
                           <<"Missing or invalid authorization header">>))]
    ELSE LET decoded == verifyToken(header.token, t) IN
         IF decoded.ok
         THEN [ok |-> TRUE, value |-> decoded.value, response |-> NoResponse]
         ELSE [ok |-> FALSE, value |-> <<>>,
               response |-> errorHandler(Exception(decoded.error, decoded.message))]

\* the claims tokens are issued for
TokenClaims ==
    { SanitizedUser(usersData[i]) : i \in 1..Len(usersData) }
    \cup { [id |-> 3, username |-> t_nobody, email |-> t_john_email] }

Schemes == {"Bearer", "Basic", ""}

\* instants around the expiry of a token issued at 0 or at 1500
TokenInstants ==
    { 0, 1500, JWT_EXPIRATION_S * 1000 - 1, JWT_EXPIRATION_S * 1000,
      JWT_EXPIRATION_S * 1000 + 1500 }

\* generateToken(claims) is called
IssueToken(claims) ==
    /\ call' = Called("generateToken", claims, now, generateToken(claims, now))
    /\ UNCHANGED <<now, env, ipRequests, loginAttempts, pending, warnCount, failedAt>>

\* a request with the token issued last reaches authMiddleware
PresentToken(scheme) ==
    /\ call.fn = "generateToken"
    /\ call.result.ok
    /\ call' = Called("authMiddleware",
                      [scheme |-> scheme, token |-> call.result.value,
                       claims |-> call.input, issuedAt |-> call.at],
                      now,
                      authMiddleware([scheme |-> scheme, token |-> call.result.value],
                                     now))
    /\ UNCHANGED <<now, env, ipRequests, loginAttempts, pending, warnCount, failedAt>>

NextToken ==
    \/ \E claims \in TokenClaims : IssueToken(claims)
    \/ \E scheme \in Schemes : PresentToken(scheme)
    \/ \E t \in TokenInstants : Tick(t) /\ UNCHANGED failedAt

SpecToken == Init /\ [][NextToken]_vars

-----------------------------------------------------------------------------
(* Properties of the login pipeline *)

\* the outcome of a request that arrives in the current state
Answer(client, identifier, password) ==
    Arrival(ipRequests, loginAttempts, client, identifier, password, now)

\* MAX_FAILED_ATTEMPTS failures are on record for X and its window has not passed
LockedOut(X) ==
    /\ X \in DOMAIN loginAttempts
    /\ loginAttempts[X].attempts >= MAX_FAILED_ATTEMPTS
    /\ now <= loginAttempts[X].resetTime

\* the stages of the service: validation, lookup, comparison, bookkeeping
ServiceStages == {"validate", "lookup", "compare", "record", "clear", "token"}

\* C1: once 5 failures are on record for an identifier X within one window, every
\* request whose body names X and that arrives up to the window's reset time is
\* answered 429 without validation, user lookup or password comparison; the
\* identifier gate is the one that answers unless the IP gate, which runs first,
\* has already rejected the request.
C1_LockoutBlocks ==
    \A X \in Identifiers, client \in Clients, password \in Passwords :
        LockedOut(X) =>
            LET out == Answer(client, X, password) IN
            /\ out.response.status = 429
            /\ ~out.suspended
            /\ out.stages \cap ServiceStages = {}
            /\ out.loginAttempts = loginAttempts
            /\ IF globalRateLimiter(ipRequests, getClientIP(client), now).blocked
               THEN out.gate = "ip"
               ELSE out.gate = "identifier" /\ "idGate" \in out.stages

\* five failures are on record for X, more than five requests have come from one
\* client in its window, and a request for X is answered by the identifier gate
C1_Locked ==
    \E X \in Identifiers, client \in Clients, password \in Passwords :
        /\ LockedOut(X)
        /\ loginAttempts[X].attempts = MAX_FAILED_ATTEMPTS
        /\ getClientIP(client) \in DOMAIN ipRequests
        /\ ipRequests[getClientIP(client)].count > MAX_FAILED_ATTEMPTS
        /\ Answer(client, X, password).gate = "identifier"

\* the response to a failed authentication
InvalidCredentials ==
    [status |-> 401, body |-> [success |-> FALSE, error |-> <<"Invalid credentials">>]]

\* identifiers of valid shape that no user has, identifiers of the stored users,
\* and passwords of valid shape
UnknownIdentifiers == { JsString(t_nobody) }
KnownIdentifiers == { JsString(t_john_doe), JsString(t_admin_email) }
ShapedPasswords == { JsString(t_john123), JsString(t_wrongpw) }

\* the response a suspended request p gets when its comparison resolves now
Resolved(attemptMap, p) == loginFinish(attemptMap, p, now).response

\* C2: a login with an identifier no user has and a login with a stored identifier
\* and a password that does not match get the same response once both are past
\* the two gates: status 401 with body {success: false, error: "Invalid credentials"}.
C2_SameFailureResponse ==
    /\ \A client \in Clients, X \in UnknownIdentifiers, password \in ShapedPasswords :
          LET out == Answer(client, X, password) IN
          out.gate = "" => ~out.suspended /\ out.response = InvalidCredentials
    /\ \A client \in Clients, X \in KnownIdentifiers, password \in ShapedPasswords :
          LET out == Answer(client, X, password)
              user == usersData[findByUsernameOrEmail(X.text)]
          IN (out.gate = "" /\ user.password # bcryptHash(password.text)) =>
                 /\ out.suspended
                 /\ Resolved(out.loginAttempts, out.request[1]) = InvalidCredentials
    /\ \A i \in 1..Len(pending) :
          usersData[pending[i].user].password # bcryptHash(pending[i].validatedPassword)
              => Resolved(loginAttempts, pending[i]) = InvalidCredentials

\* a failure is on record for an identifier no user has while a request with a
\* stored identifier and a wrong password awaits its comparison
C2_BothFailures ==
    /\ JsString(t_nobody) \in DOMAIN loginAttempts
    /\ \E i \in 1..Len(pending) :
          /\ usersData[pending[i].user].password # bcryptHash(pending[i].validatedPassword)
          /\ Resolved(loginAttempts, pending[i]).status = 401

\* C3: a request past both gates with the username or the email of a stored user and
\* the password matching that user's hash is answered 200 with success true, the
\* user's id, username and email, and a token.
C3_CorrectCredentialsSucceed ==
    \A client \in Clients, u \in 1..Len(usersData),
       password \in ShapedPasswords \cup {JsString(t_abcde123)} :
        \A X \in {usersData[u].username, usersData[u].email} :
            LET out == Answer(client, JsString(X), password) IN
            (out.gate = "" /\ usersData[u].password = bcryptHash(password.text)) =>
                /\ out.suspended
                /\ LET r == Resolved(out.loginAttempts, out.request[1]) IN
                   /\ r.status = 200
                   /\ r.body.success
                   /\ r.body.user = [id |-> usersData[u].id,
                                     username |-> usersData[u].username,
                                     email |-> usersData[u].email]
                   /\ "token" \in DOMAIN r.body

\* C4: when a login for X succeeds, X has no failed-attempt counter afterwards:
\* a request for X that comes next passes the identifier gate with zero attempts
\* counted, and a failure that follows sets X's count to 1.
C4_SuccessClears ==
    \A i \in 1..Len(pending) :
        LET fin == loginFinish(loginAttempts, pending[i], now)
            X == JsString(pending[i].validatedIdentifier)
        IN fin.response.status = 200 =>
            /\ X \notin DOMAIN fin.loginAttempts
            /\ \A t \in {u \in Instants : u >= now} :
                  LET gate == rateLimitMiddleware(fin.loginAttempts, X, t) IN
                  /\ ~gate.blocked
                  /\ AttemptsOf(fin.loginAttempts, X, t).attempts = 0
                  /\ recordFailedAttempt(gate.loginAttempts, X, t)[X].attempts = 1
                  /\ \A client \in Clients, password \in Passwords :
                        Arrival(ipRequests, fin.loginAttempts, client, X, password,
                                t).gate # "identifier"

\* a login that will succeed is awaited while four failures are on record for its
\* identifier in a window that has not passed
C4_SuccessAfterFailures ==
    \E i \in 1..Len(pending) :
        LET X == JsString(pending[i].validatedIdentifier) IN
        /\ loginFinish(loginAttempts, pending[i], now).response.status = 200
        /\ X \in DOMAIN loginAttempts
        /\ loginAttempts[X].attempts = MAX_FAILED_ATTEMPTS - 1
        /\ now <= loginAttempts[X].resetTime

\* the requests counted for clientIP in its current window
CountedInWindow(clientIP) ==
    IF clientIP \notin DOMAIN ipRequests THEN 0
    ELSE IF IpWindowPassed(ipRequests[clientIP], now) THEN 0
    ELSE ipRequests[clientIP].count

\* C5: for every client IP, the first 20 requests of a window pass the IP gate and
\* every further request of that window is answered 429 by the IP gate, before
\* the identifier gate, validation, lookup or comparison run for it.
C5_IpGateFirst ==
    \A client \in FloodClients, identifier \in Identifiers, password \in Passwords :
        LET out == Answer(client, identifier, password) IN
        IF CountedInWindow(getClientIP(client)) < MAX_REQUESTS_PER_IP
        THEN out.gate # "ip" /\ "idGate" \in out.stages
        ELSE /\ out.gate = "ip"
             /\ out.response.status = 429
             /\ out.stages = {"ipGate"}
             /\ ~out.suspended
             /\ out.recorded = <<>>
             /\ out.loginAttempts = loginAttempts

\* a client has had requests rejected in its window while an identifier is locked
\* out: the IP gate answers the request that the identifier gate would reject too
C5_Flooded ==
    \E client \in FloodClients, X \in Identifiers, password \in Passwords :
        /\ CountedInWindow(getClientIP(client)) > MAX_REQUESTS_PER_IP
        /\ LockedOut(X)
        /\ Answer(client, X, password).gate = "ip"

\* the line globalRateLimiter logs when a client crosses the limit
RateLimitWarning == Log("warn", "Rate limit exceeded for IP")

\* C6: for every client IP and window, the warning is logged exactly once, by the
\* first request that pushes the count above 20; every later blocked request of
\* the window logs nothing.
C6_OneWarning ==
    /\ \A clientIP \in DOMAIN ipRequests :
          warnCount[clientIP] =
              IF ipRequests[clientIP].count > MAX_REQUESTS_PER_IP THEN 1 ELSE 0
    /\ \A client \in FloodClients, identifier \in Identifiers, password \in Passwords :
          LET n == CountedInWindow(getClientIP(client))
              logs == Answer(client, identifier, password).logs
          IN IF n < MAX_REQUESTS_PER_IP
             THEN \A i \in 1..Len(logs) : logs[i] # RateLimitWarning
             ELSE IF n = MAX_REQUESTS_PER_IP
             THEN logs = <<RateLimitWarning>>
             ELSE logs = <<>>

\* a client has had two requests rejected in one window and one warning logged
C6_Silenced ==
    \E clientIP \in DOMAIN ipRequests :
        /\ ipRequests[clientIP].count >= MAX_REQUESTS_PER_IP + 2
        /\ warnCount[clientIP] = 1

\* C7: once the window of X has passed (now > resetTime), the identifier gate
\* admits the next request for X whatever the failures on record, and the count
\* restarts from 0: the first new failure gives count 1 in a new 5-minute window.
C7_WindowExpires ==
    \A X \in DOMAIN loginAttempts :
        now > loginAttempts[X].resetTime =>
            LET gate == rateLimitMiddleware(loginAttempts, X, now)
                restarted == [attempts |-> 1, resetTime |-> now + FAILED_WINDOW_MS]
            IN /\ ~gate.blocked
               /\ AttemptsOf(loginAttempts, X, now).attempts = 0
               /\ \A client \in Clients, password \in Passwords :
                     Answer(client, X, password).gate # "identifier"
               /\ recordFailedAttempt(loginAttempts, X, now)[X] = restarted
               /\ \A t \in {u \in Instants : u >= now} :
                     recordFailedAttempt(gate.loginAttempts, X, t)[X] = restarted

\* five failures are on record for an identifier whose window has passed
C7_Expired ==
    \E X \in DOMAIN loginAttempts :
        /\ loginAttempts[X].attempts >= MAX_FAILED_ATTEMPTS
        /\ now > loginAttempts[X].resetTime

\* C8: the limit is 5 attempts per 5 minutes per identifier: in any span of 5
\* minutes at most 5 failed logins for one identifier reach credential
\* verification (sequential requests, no successful login in between).
C8_FivePerFiveMinutes ==
    \A X \in DOMAIN failedAt : Len(failedAt[X]) <= MAX_FAILED_ATTEMPTS

\* values that fail validation, and the requests that carry one
MalformedIdentifiers ==
    { JsString(<<"a","b">>), JsString(<<"j","o"," ","d","o","e">>), Undefined }
MalformedPasswords == { JsString(<<"a","b","c">>), Undefined }
Malformed ==
    { r \in [identifier : MalformedIdentifiers \cup {JsString(t_john_doe)},
             password : MalformedPasswords \cup {JsString(t_john123)}] :
        r.identifier \in MalformedIdentifiers \/ r.password \in MalformedPasswords }

ResponseFields ==
    {"success", "error", "message", "user", "token", "retryAfter", "resetTime"}
UserFields == {"id", "username", "email"}
BodyTexts(body) ==
    (IF "error" \in DOMAIN body THEN {body.error} ELSE {})
    \cup (IF "message" \in DOMAIN body THEN {body.message} ELSE {})
    \cup (IF "user" \in DOMAIN body THEN {body.user.username, body.user.email} ELSE {})
    \cup (IF "token" \in DOMAIN body
          THEN {body.token.payload.username, body.token.payload.email} ELSE {})

\* response r shows neither the password supplied nor a field for a stored hash
Discreet(r, password) ==
    /\ DOMAIN r.body \subseteq ResponseFields
    /\ ("user" \in DOMAIN r.body => DOMAIN r.body.user = UserFields)
    /\ ("token" \in DOMAIN r.body => DOMAIN r.body.token.payload = UserFields)
    /\ BodyTexts(r.body) \cap ({password, Trim(password)} \ {<<>>}) = {}

\* C10: no response of the login endpoint contains the supplied password or a
\* stored password hash, and the user object of a success has exactly the fields
\* id, username and email.
C10_NoSecretInResponse ==
    /\ \A client \in Clients, identifier \in Identifiers,
          password \in Passwords \cup {JsString(<<" ">> \o t_john123 \o <<" ">>)} :
          LET out == Answer(client, identifier, password) IN
          IF out.suspended
          THEN Discreet(Resolved(out.loginAttempts, out.request[1]), password.text)
          ELSE Discreet(out.response, password.text)
    /\ \A i \in 1..Len(pending) :
          Discreet(Resolved(loginAttempts, pending[i]), pending[i].validatedPassword)

\* a suspended login is about to be answered 200 with the user's data and a token
C10_SuccessAnswered ==
    \E i \in 1..Len(pending) :
        LET r == Resolved(loginAttempts, pending[i]) IN
        /\ r.status = 200
        /\ "user" \in DOMAIN r.body
        /\ "token" \in DOMAIN r.body

-----------------------------------------------------------------------------
(* Properties of the validators *)

\* text t has between lo and hi characters
LengthWithin(t, lo, hi) == Len(t) >= lo /\ Len(t) <= hi

\* every character of t is a letter, a digit or one of . _ @ -
InCharset(t) == \A i \in 1..Len(t) : t[i] \in IdentifierChars

\* C11 as stated: validateIdentifier(I) returns I.trim() for every input I of 3 to 50
\* characters, all of the class [a-zA-Z0-9._@-], and fails for every other input.
C11_IdentifierAsSent ==
    call.fn = "validateIdentifier" =>
        IF /\ call.input.type = "string"
           /\ LengthWithin(call.input.text, 3, 50)
           /\ InCharset(call.input.text)
        THEN call.result.ok /\ call.result.value = Trim(call.input.text)
        ELSE ~call.result.ok

\* C11: validateIdentifier(I) returns I.trim() for every string I whose trimmed form
\* has 3 to 50 characters, all of the class [a-zA-Z0-9._@-]; it fails for every
\* other input.
C11_IdentifierTrimmed ==
    call.fn = "validateIdentifier" =>
        IF /\ call.input.type = "string"
           /\ LengthWithin(Trim(call.input.text), 3, 50)
           /\ InCharset(Trim(call.input.text))
        THEN call.result.ok /\ call.result.value = Trim(call.input.text)
        ELSE ~call.result.ok /\ call.result.error = "Error"

\* validateIdentifier has accepted an identifier sent with blanks around it
C11_PaddedAccepted ==
    /\ call.fn = "validateIdentifier"
    /\ call.result.ok
    /\ call.result.value # call.input.text
    /\ Len(call.result.value) = 50

\* C12 as stated: validatePassword(P) succeeds for every string P of 4 to 128
\* characters and fails for every P whose length is outside that range.
C12_PasswordAsSent ==
    (call.fn = "validatePassword" /\ call.input.type = "string") =>
        (call.result.ok <=> LengthWithin(call.input.text, 4, 128))

\* C12: validatePassword(P) succeeds, returning P.trim(), for every string P whose
\* trimmed form has 4 to 128 characters; it fails for every other P.
C12_PasswordTrimmed ==
    (call.fn = "validatePassword" /\ call.input.type = "string") =>
        IF LengthWithin(Trim(call.input.text), 4, 128)
        THEN call.result.ok /\ call.result.value = Trim(call.input.text)
        ELSE ~call.result.ok /\ call.result.error = "Error"

\* validatePassword has rejected a password of 4 to 128 characters whose trimmed
\* form is too short
C12_BlankRejected ==
    /\ call.fn = "validatePassword"
    /\ call.input.type = "string"
    /\ LengthWithin(call.input.text, 4, 128)
    /\ Trim(call.input.text) # <<>>
    /\ ~call.result.ok

-----------------------------------------------------------------------------
(* Further properties of the login pipeline *)

\* an identifier that is too short and one with a character outside the class
t_ab == <<"a","b">>
t_forbidden == <<"j","o","!","d","o","e">>

ExpiryOf(t) == ((t \div 1000) + JWT_EXPIRATION_S) * 1000

\* the response to a request with an expired token
TokenHasExpired ==
    [status |-> 401, body |-> [success |-> FALSE, error |-> <<"Token has expired">>]]

InternalServerError ==
    [status |-> 500, body |-> [success |-> FALSE, error |-> <<"Internal server error">>]]

\* C15: an unexpected exception raised while a login is handled, such as an error
\* thrown by the token issuer, is answered 500 with body
\* {success: false, error: "Internal server error"}.
C15_UnexpectedIs500 ==
    /\ \A i \in 1..Len(pending) :
          LET user == usersData[pending[i].user] IN
          (/\ comparePasswords(pending[i].validatedPassword, user.password)
           /\ ~generateToken(SanitizedUser(user), now).ok)
              => Resolved(loginAttempts, pending[i]) = InternalServerError
    /\ \A client \in Clients :
          LET out == Answer(client, JsString(t_john_doe), JsString(t_john123)) IN
          (out.suspended /\ ~generateToken(SanitizedUser(usersData[1]), now).ok)
              => Resolved(out.loginAttempts, out.request[1]) = InternalServerError

\* C16: under every interleaving of concurrent logins for one identifier, the
\* failed-attempt count of the identifier never exceeds the maximum of 5.
C16_CountWithinMaximum ==
    \A X \in DOMAIN loginAttempts : loginAttempts[X].attempts <= MAX_FAILED_ATTEMPTS

\* C17 as stated: validation runs before the identifier gate, so a request naming a
\* locked-out identifier with a malformed password is answered 400, not 429.
C17_ValidationBeforeGate ==
    \A client \in Clients, X \in Identifiers, password \in MalformedPasswords :
        LockedOut(X) => Answer(client, X, password).response.status = 400

\* C17: the identifier gate runs before validation, so a request naming a
\* locked-out identifier with a malformed password is answered 429 by the gate
\* (when the IP gate lets it through) and its input is never validated.
C17_GateBeforeValidation ==
    \A client \in Clients, X \in Identifiers, password \in MalformedPasswords :
        LET out == Answer(client, X, password) IN
        (LockedOut(X) /\ out.gate # "ip") =>
            /\ out.gate = "identifier"
            /\ out.response.status = 429
            /\ "validate" \notin out.stages
            /\ ~validatePassword(password).ok

\* at the last instant of a lockout, a request without a password for the
\* locked-out identifier is answered 429
C17_MalformedWhileLocked ==
    \E client \in Clients, X \in Identifiers :
        /\ LockedOut(X)
        /\ now = loginAttempts[X].resetTime
        /\ Answer(client, X, Undefined).response.status = 429

\* C18: the key the identifier gate checks is the key under which the outcome is
\* recorded, so no variant of a locked-out identifier (such as the identifier with
\* a blank before it) is admitted to user lookup and password comparison during
\* the lockout.
C18_NoVariantAdmitted ==
    \A client \in Clients, X \in Identifiers, password \in Passwords :
        LET validated == validateIdentifier(X)
            out == Answer(client, X, password)
        IN /\ out.recorded # <<>> => out.recorded[1] = X
           /\ (validated.ok /\ LockedOut(JsString(validated.value))) =>
                  out.stages \cap {"lookup", "compare"} = {}

\* the correct password of john_doe with a blank on each side
t_padded == <<" ">> \o t_john123 \o <<" ">>

\* C19: a 200 response with a token is given only to a request that passed the IP
\* gate, the identifier gate and validation, and whose supplied password matches
\* the stored hash of the user found for its identifier; the token's claims are
\* that user's id, username and email.
C19_TokenOnlyAfterChecks ==
    \A client \in Clients, X \in Identifiers \cup {JsString(t_john_email)},
       password \in Passwords \cup {JsString(t_padded)} :
        LET out == Answer(client, X, password) IN
        /\ out.response.status # 200
        /\ out.suspended =>
              LET r == Resolved(out.loginAttempts, out.request[1])
                  u == findByUsernameOrEmail(validateIdentifier(X).value)
              IN r.status = 200 =>
                    /\ out.gate = ""
                    /\ {"ipGate", "idGate", "validate", "lookup", "compare"}
                           \subseteq out.stages
                    /\ validateIdentifier(X).ok
                    /\ validatePassword(password).ok
                    /\ u # NoUser
                    /\ r.body.user = SanitizedUser(usersData[u])
                    /\ r.body.token.payload = SanitizedUser(usersData[u])
                    /\ comparePasswords(password.text, usersData[u].password)

\* C20: a check that the identifier gate blocks does not change the counter of
\* the identifier: neither its count nor its reset time moves, so however many
\* blocked requests are sent the lockout ends at the original reset time.
C20_BlockedCheckChangesNothing ==
    \A X \in Identifiers :
        LET gate == rateLimitMiddleware(loginAttempts, X, now) IN
        gate.blocked =>
            /\ gate.loginAttempts = loginAttempts
            /\ gate.response.body.resetTime = toISOString(loginAttempts[X].resetTime)
            /\ \A client \in Clients, password \in Passwords :
                  LET out == Answer(client, X, password) IN
                  /\ out.loginAttempts = loginAttempts
                  /\ out.recorded = <<>>
                  /\ out.gate = "identifier" =>
                         out.response.body.resetTime =
                             toISOString(loginAttempts[X].resetTime)

\* at the last instant of a lockout that began at 0, after blocked requests at
\* that instant, the counter still has its five failures and its reset time
C20_StillLocked ==
    \E client \in Clients, X \in Identifiers :
        /\ LockedOut(X)
        /\ loginAttempts[X] =
               [attempts |-> MAX_FAILED_ATTEMPTS, resetTime |-> FAILED_WINDOW_MS]
        /\ now = FAILED_WINDOW_MS
        /\ CountedInWindow(getClientIP(client)) >= 2
        /\ rateLimitMiddleware(loginAttempts, X, now).blocked

\* C21 (as stated): the identifier gate is read-only on the failed-attempt map in
\* every case: allowed or blocked, entry or none, window passed or not, the map
\* after the check is the map before it.
C21_GateReadOnly ==
    \A X \in Identifiers :
        rateLimitMiddleware(loginAttempts, X, now).loginAttempts = loginAttempts

\* C21: the identifier gate never adds or removes an entry and never touches the
\* entry of another identifier; the entry of the identifier it checks is left as
\* it was while its window has not passed (so a blocked check changes nothing)
\* and is reset in place to 0 attempts and a window of 5 minutes from the check
\* once the window has passed; a request without an identifier changes nothing.
C21_GateResetsPassedWindowOnly ==
    \A X \in Identifiers :
        LET gate == rateLimitMiddleware(loginAttempts, X, now) IN
        /\ DOMAIN gate.loginAttempts = DOMAIN loginAttempts
        /\ \A Y \in DOMAIN loginAttempts :
              gate.loginAttempts[Y] =
                  IF Y = X /\ now > loginAttempts[Y].resetTime
                  THEN [attempts |-> 0, resetTime |-> now + FAILED_WINDOW_MS]
                  ELSE loginAttempts[Y]
        /\ gate.blocked => gate.loginAttempts = loginAttempts
        /\ ~gate.checked => gate.loginAttempts = loginAttempts

\* the gate checks an identifier whose recorded failures lie in a window that has
\* passed, while another identifier has an entry too
C21_PassedWindowChecked ==
    \E X \in Identifiers, Y \in DOMAIN loginAttempts :
        /\ X \in DOMAIN loginAttempts
        /\ Y # X
        /\ loginAttempts[X].attempts >= 1
        /\ now > loginAttempts[X].resetTime
        /\ rateLimitMiddleware(loginAttempts, X, now).loginAttempts # loginAttempts

\* C22: in a successful login the failed-attempt counter of the identifier is
\* cleared before the token is issued, and a login that clears the counter always
\* ends in a 200 response carrying a token: no request answered with a failure
\* clears a counter.
C22_ClearedOnlyBySuccess ==
    \A i \in 1..Len(pending) :
        LET fin == loginFinish(loginAttempts, pending[i], now)
            X == JsString(pending[i].validatedIdentifier)
        IN /\ fin.response.status = 200 =>
                 /\ fin.cleared = <<X>>
                 /\ "clear" \in fin.stages
                 /\ X \notin DOMAIN fin.loginAttempts
           /\ fin.cleared # <<>> =>
                 /\ fin.response.status = 200
                 /\ "token" \in DOMAIN fin.response.body

\* C23: a missing signing secret is a failure at startup: a process without a
\* secret never handles a login request, so generateToken never fails inside a
\* request for lack of a secret.
C23_NoSecretNoRequests ==
    /\ ~env.JWT_SECRET =>
          /\ ipRequests = EmptyMap
          /\ loginAttempts = EmptyMap
          /\ pending = <<>>
    /\ \A i \in 1..Len(pending) :
          LET user == usersData[pending[i].user] IN
          comparePasswords(pending[i].validatedPassword, user.password) =>
              generateToken(SanitizedUser(user), now).ok

-----------------------------------------------------------------------------
(* The error handler called on its own *)

\* the classes (err.name) of the errors passed to next(err)
ErrorClasses ==
    { "Error", "TypeError", "PayloadTooLargeError", "BadRequestError",
      "UnauthorizedError", "SyntaxError", "JsonWebTokenError", "TokenExpiredError" }

ErrorMessages ==
    { <<"JWT_SECRET not configured">>, <<"Cannot read properties of undefined">>,
      <<"request entity too large">> }

\* err.statusCode, 0 when the error has none
ErrorStatusCodes == { 0, 413, 500, 503 }

ThrownErrors ==
    { [error |-> c, message |-> m, statusCode |-> s] :
          c \in ErrorClasses, m \in ErrorMessages, s \in ErrorStatusCodes }

\* app.use(errorHandler) receives err
HandleError(err) ==
    /\ call' = Called("errorHandler", err, now, errorHandler(err))
    /\ UNCHANGED <<now, env, ipRequests, loginAttempts, pending, warnCount, failedAt>>

NextError == \E err \in ThrownErrors : HandleError(err)

SpecError == Init /\ [][NextError]_vars

\* C24: a 500 response never carries details of the exception: whatever the error
\* and whatever NODE_ENV, its body has only success and the error text
\* 'Internal server error'.
C24_No500Details ==
    (call.fn = "errorHandler" /\ call.result.status = 500) =>
        /\ call.result.body.error = <<"Internal server error">>
        /\ DOMAIN call.result.body = {"success", "error"}

-----------------------------------------------------------------------------
(* One account named by its username and by its email *)

AccountIdentifiers == { JsString(t_john_doe), JsString(t_john_email) }
AccountPasswords == { JsString(t_wrongpw) }

\* wrong passwords for one account, one request after the other
NextAccount ==
    \/ \E client \in Clients, identifier \in AccountIdentifiers,
          password \in AccountPasswords :
          /\ Below(client, MaxIpCount)
          /\ Receive(client, identifier, password)
          /\ Len(pending') <= MaxPending
          /\ UNCHANGED failedAt
    \/ \E i \in 1..Len(pending) : Complete(i) /\ UNCHANGED failedAt
    \/ \E t \in Instants : Tick(t) /\ UNCHANGED failedAt

SpecAccount == InitFlood /\ [][NextAccount]_vars

\* the failures on record under identifier X in a window that has not passed
LiveFailures(X) ==
    IF X \notin DOMAIN loginAttempts THEN 0
    ELSE IF now > loginAttempts[X].resetTime THEN 0
    ELSE loginAttempts[X].attempts

\* C25: for every user record at most 5 wrong-password attempts against the
\* account are evaluated within one 5-minute window, whether the requests name it
\* by its username, by its email or by both in turn.
C25_FivePerAccount ==
    \A u \in 1..Len(usersData) :
        LiveFailures(JsString(usersData[u].username))
            + LiveFailures(JsString(usersData[u].email)) <= MAX_FAILED_ATTEMPTS

-----------------------------------------------------------------------------
(* Further properties of the IP gate *)

\* C26: a blocked client IP is admitted again by the first request that arrives
\* after its window has passed: that request is allowed and leaves the counter
\* restarted (count 1, warned false, a new window of 60 seconds); no request sent
\* while the window is open, blocked or not, moves the reset time, which is never
\* more than 60 seconds ahead of the clock, so a client that keeps sending is
\* blocked no longer than until the reset time of the window it was blocked in.
C26_ReadmittedAfterWindow ==
    \A client \in FloodClients :
        LET clientIP == getClientIP(client) IN
        clientIP \in DOMAIN ipRequests =>
            LET gate == globalRateLimiter(ipRequests, clientIP, now)
                resetTime == ipRequests[clientIP].resetTime
            IN /\ resetTime <= now + IP_WINDOW_MS
               /\ now > resetTime =>
                     /\ ~gate.blocked
                     /\ gate.ipRequests[clientIP] =
                            [count |-> 1, resetTime |-> now + IP_WINDOW_MS,
                             warned |-> FALSE]
                     /\ \A identifier \in FloodIdentifiers, password \in FloodPasswords :
                           Answer(client, identifier, password).gate # "ip"
               /\ now <= resetTime =>
                     gate.ipRequests[clientIP].resetTime = resetTime
               /\ gate.blocked =>
                     /\ now <= resetTime
                     /\ gate.ipRequests[clientIP].resetTime = resetTime

\* a client that was blocked more than once, and warned, in the window opened at
\* 0 is at the first instant past the reset time of that window
C26_BlockedWindowPassed ==
    \E client \in FloodClients :
        LET clientIP == getClientIP(client) IN
        /\ clientIP \in DOMAIN ipRequests
        /\ ipRequests[clientIP].count > MAX_REQUESTS_PER_IP + 1
        /\ ipRequests[clientIP].warned
        /\ ipRequests[clientIP].resetTime = IP_WINDOW_MS
        /\ now = IP_WINDOW_MS + 1

\* r is the least whole number of seconds that covers the milliseconds left
\* until resetTime
SecondsLeft(r, resetTime) ==
    /\ r * 1000 >= resetTime - now
    /\ (r - 1) * 1000 < resetTime - now

\* C27: every 429 response carries retryAfter = ceil((resetTime - now) / 1000),
\* the seconds left in the window of the gate that answers: it is never negative,
\* at most 60 for the IP gate and at most 300 for the identifier gate, whose
\* resetTime field is a timestamp that denotes the stored reset time of the
\* identifier.
C27_RetryAfter ==
    \A client \in FloodClients, X \in FloodIdentifiers, password \in FloodPasswords :
        LET out == Answer(client, X, password)
            body == out.response.body
        IN out.response.status = 429 =>
              /\ out.gate \in {"ip", "identifier"}
              /\ body.retryAfter >= 0
              /\ out.gate = "ip" =>
                    /\ SecondsLeft(body.retryAfter,
                                   ipRequests[getClientIP(client)].resetTime)
                    /\ body.retryAfter <= IP_WINDOW_MS \div 1000
                    /\ "resetTime" \notin DOMAIN body
              /\ out.gate = "identifier" =>
                    /\ DateParse(body.resetTime) = loginAttempts[X].resetTime
                    /\ SecondsLeft(body.retryAfter, DateParse(body.resetTime))
                    /\ body.retryAfter <= FAILED_WINDOW_MS \div 1000

\* each gate answers 429 to some request at an instant that leaves a fraction of
\* a second in its window
C27_BothGatesAnswer ==
    /\ \E client \in FloodClients, X \in FloodIdentifiers, password \in FloodPasswords :
          /\ Answer(client, X, password).gate = "ip"
          /\ Answer(client, X, password).response.status = 429
          /\ (ipRequests[getClientIP(client)].resetTime - now) % 1000 # 0
    /\ \E client \in FloodClients, X \in FloodIdentifiers, password \in FloodPasswords :
          /\ Answer(client, X, password).gate = "identifier"
          /\ Answer(client, X, password).response.status = 429
          /\ (loginAttempts[X].resetTime - now) % 1000 # 0

-----------------------------------------------------------------------------
(* The lifetime of a failed-attempt entry *)

\* C28: an entry of the failed-attempt map is removed only in the step in which
\* a login request for that identifier resumes after a password comparison that
\* succeeded (the one place clearLoginAttempts is called), and that request logs
\* the identifier in: no failed, blocked or invalid request and no passing of
\* time removes an entry, so the entry of an identifier that never logs in
\* successfully stays for the life of the process.
C28_KeptUntilLoggedIn ==
    [][\A X \in DOMAIN loginAttempts :
          X \notin DOMAIN loginAttempts' =>
              /\ now' = now
              /\ \E i \in 1..Len(pending) :
                    /\ JsString(pending[i].validatedIdentifier) = X
                    /\ comparePasswords(pending[i].validatedPassword,
                                        usersData[pending[i].user].password)
                    /\ loginFinish(loginAttempts, pending[i], now).cleared = <<X>>
                    /\ loginFinish(loginAttempts, pending[i], now).response.status = 200
                    /\ Len(pending') = Len(pending) - 1]_vars

\* C28, the part that does not depend on the token: an entry is removed only in
\* the step in which a login request for that identifier resumes after a password
\* comparison that succeeded; no failed-comparison, blocked or invalid request and
\* no passing of time removes an entry.
C28_DeletedOnlyBySuccess ==
    [][\A X \in DOMAIN loginAttempts :
          X \notin DOMAIN loginAttempts' =>
              /\ now' = now
              /\ \E i \in 1..Len(pending) :
                    /\ JsString(pending[i].validatedIdentifier) = X
                    /\ comparePasswords(pending[i].validatedPassword,
                                        usersData[pending[i].user].password)
                    /\ loginFinish(loginAttempts, pending[i], now).cleared = <<X>>
                    /\ loginAttempts' = MapDelete(loginAttempts, X)
                    /\ Len(pending') = Len(pending) - 1]_vars

\* the entry of an identifier without an account is still there after its window
\* has passed, next to an entry that a suspended login with the right password is
\* about to delete
C28_KeptAndAboutToBeDeleted ==
    /\ JsString(t_nobody) \in DOMAIN loginAttempts
    /\ now > loginAttempts[JsString(t_nobody)].resetTime
    /\ \E i \in 1..Len(pending) :
          /\ JsString(pending[i].validatedIdentifier) \in DOMAIN loginAttempts
          /\ comparePasswords(pending[i].validatedPassword,
                              usersData[pending[i].user].password)

-----------------------------------------------------------------------------
(* The key of the IP gate *)

t_unknown == <<"u","n","k","n","o","w","n">>

\* a direct client, and one that names the address of the direct client in its header
DirectClient == [xff |-> Undefined, remoteAddress |-> JsString(t_ip1)]
NamingClient == [xff |-> JsString(t_ip1), remoteAddress |-> JsString(t_ip9)]
\* clients behind a proxy: the header lists two addresses, or one with blanks around it
ProxiedClient ==
    [xff |-> JsString(t_ip2 \o <<",", " ">> \o t_ip9), remoteAddress |-> JsString(t_ip1)]
PaddedClient ==
    [xff |-> JsString(<<" ">> \o t_ip2 \o <<" ">>), remoteAddress |-> JsString(t_ip9)]
\* a header whose first entry is empty or blank, and an empty header
EmptyFirstClient ==
    [xff |-> JsString(<<",", " ">> \o t_ip2), remoteAddress |-> JsString(t_ip1)]
BlankFirstClient ==
    [xff |-> JsString(<<" ", ",">> \o t_ip2), remoteAddress |-> Undefined]
EmptyHeaderClient == [xff |-> JsString(<<>>), remoteAddress |-> JsString(t_ip1)]
\* neither header nor socket address
BareClient == [xff |-> Undefined, remoteAddress |-> Undefined]

KeyClients ==
    { DirectClient, NamingClient, ProxiedClient, PaddedClient, EmptyFirstClient,
      BlankFirstClient, EmptyHeaderClient, BareClient }

\* requests (with an identifier that fails validation) from clients whose headers
\* and socket addresses differ
NextClient ==
    \/ \E client \in KeyClients :
          /\ Below(client, MaxIpCount)
          /\ Receive(client, JsString(t_ab), JsString(t_wrongpw))
          /\ UNCHANGED failedAt
    \/ \E t \in FloodInstants : Tick(t) /\ UNCHANGED failedAt

SpecClient == InitFlood /\ [][NextClient]_vars

\* the key under which the IP gate counts a request of client in this state: the
\* one counter that the request creates or changes
CountedUnder(client) ==
    LET after == Answer(client, JsString(t_ab), JsString(t_wrongpw)).ipRequests IN
    CHOOSE k \in DOMAIN after :
        IF k \in DOMAIN ipRequests THEN after[k] # ipRequests[k] ELSE TRUE

\* C29 (as stated): the key of the IP gate is the first entry of the
\* forwarded-for header whenever the header is present, otherwise the socket
\* address, otherwise 'unknown'.
C29_FirstEntryWheneverPresent ==
    \A client \in KeyClients :
        CountedUnder(client) =
            IF client.xff.type = "string" THEN Trim(SplitFirst(client.xff.text))
            ELSE IF client.remoteAddress.type = "string" THEN client.remoteAddress.text
            ELSE t_unknown

\* C29: the key of the IP gate is the first entry of the forwarded-for header,
\* without the blanks around it, when the header is present and that entry is
\* not empty; otherwise the socket address; otherwise 'unknown'.  A request
\* changes the counter of its key only, and a second request is counted on the
\* counter of the first exactly when the two resolve to the same key.
C29_KeyResolution ==
    /\ CountedUnder(DirectClient) = t_ip1
    /\ CountedUnder(NamingClient) = t_ip1
    /\ CountedUnder(ProxiedClient) = t_ip2
    /\ CountedUnder(PaddedClient) = t_ip2
    /\ CountedUnder(EmptyFirstClient) = t_ip1
    /\ CountedUnder(BlankFirstClient) = t_unknown
    /\ CountedUnder(EmptyHeaderClient) = t_ip1
    /\ CountedUnder(BareClient) = t_unknown
    /\ \A c1 \in KeyClients :
          LET k1 == getClientIP(c1)
              first == Answer(c1, JsString(t_ab), JsString(t_wrongpw)).ipRequests
          IN /\ CountedUnder(c1) = k1
             /\ DOMAIN first = DOMAIN ipRequests \cup {k1}
             /\ \A k \in DOMAIN ipRequests : k # k1 => first[k] = ipRequests[k]
             /\ \A c2 \in KeyClients :
                   LET second == Arrival(first, loginAttempts, c2, JsString(t_ab),
                                         JsString(t_wrongpw), now).ipRequests
                   IN (getClientIP(c2) = k1) <=>
                          (second[k1].count = first[k1].count + 1)

\* the three counters exist, each with at least 3 requests counted in its open
\* window, and the next request of the client with the padded header would be
\* counted on the counter of the proxied client, that of the client with an empty
\* first entry on the counter of its socket address
C29_SharedCounters ==
    /\ DOMAIN ipRequests = {t_ip1, t_ip2, t_unknown}
    /\ \A k \in DOMAIN ipRequests :
          ipRequests[k].count >= 3 /\ now <= ipRequests[k].resetTime
    /\ CountedUnder(PaddedClient) = CountedUnder(ProxiedClient)
    /\ CountedUnder(EmptyFirstClient) = CountedUnder(DirectClient)

-----------------------------------------------------------------------------
(* The password that is compared *)

\* the request of client for X with password logs X in when it arrives in the
\* current state and its comparison resolves at once
LogsIn(client, X, password) ==
    LET out == Answer(client, X, password) IN
    IF out.suspended
    THEN Resolved(out.loginAttempts, out.request[1]).status = 200
    ELSE FALSE

\* C30: the password compared against the stored hash is exactly the string the
\* client sent: the correct password with whitespace added before or after it
\* does not log in, and two requests for the same identifier with different
\* password strings never both succeed.
C30_PasswordComparedAsSent ==
    \A client \in Clients, X \in Identifiers :
        /\ \A password \in Passwords \cup {JsString(t_padded)} :
              LET out == Answer(client, X, password) IN
              out.suspended => out.request[1].validatedPassword = password.text
        /\ ~LogsIn(client, X, JsString(t_padded))
        /\ \A p1, p2 \in Passwords \cup {JsString(t_padded)} :
              (LogsIn(client, X, p1) /\ LogsIn(client, X, p2)) => p1 = p2

====
